---------------------------- MODULE Spec2Model ----------------------------
(***************************************************************************)
(* A model of mergefiles: the threaded merge of                            *)
(* build/lib/mergefiles/file_operations.py (merge_directories submitting   *)
(* copy_file tasks to a ThreadPoolExecutor) and the sequential             *)
(* merge_directories of mergefiles/core.py.                                *)
(*                                                                         *)
(* The file system is one map from path strings to contents plus the set   *)
(* of existing directories.  Every system call of copy_file                *)
(* (os.path.exists, the resolver's reads, os.makedirs, shutil.copy) is a   *)
(* step of its own, so that the worker threads interleave between them.    *)
(***************************************************************************)
EXTENDS Integers, Sequences, FiniteSets, TLC

(* ------------------------------ bounds -------------------------------- *)
\* Largest number of distinct relative paths the source roots hold together.
MaxFiles == 2
\* Largest worker-pool size (num_threads) tried.
MaxThreads == 2
\* Largest number of files the destination holds before the first run.
MaxPre == 1
\* Largest number of merge invocations the caller makes in one behaviour.
MaxRuns == 2
\* Largest number of distinct relative paths when the caller invokes the merge
\* more than once.
MaxRerunFiles == 1
\* Largest number of failures the operating system injects in one behaviour.
MaxFaults == 1

(* ------------------------------ paths --------------------------------- *)
\* The source roots (src_dirs, in list order) and the destination root.
src_dirs == <<"s1", "s2">>
dst_dir == "dst"

\* The relative paths a source root may hold.
RelPaths == {"a.txt", "a_v1.txt", "d/b.txt", "d/c.txt", "d/e/f.txt"}

Max(S) == CHOOSE x \in S : \A y \in S : y <= x

\* Position of the last "/" of p, 0 if there is none.
LastSlash(p) == Max({0} \cup {i \in 1..Len(p) : SubSeq(p, i, i) = "/"})

\* os.path.dirname
dirname(p) == IF LastSlash(p) = 0 THEN "" ELSE SubSeq(p, 1, LastSlash(p) - 1)

\* os.path.join of two components
join(a, b) == a \o "/" \o b

\* os.path.relpath(abs_path, directory) for abs_path below directory
relpath(p, directory) == SubSeq(p, Len(directory) + 2, Len(p))

\* p lies in the tree below directory d (or is d).
IsUnder(p, d) ==
    \/ p = d
    \/ Len(p) > Len(d) /\ SubSeq(p, 1, Len(d) + 1) = d \o "/"

\* os.path.commonpath([src_path, preferred_src]) == preferred_src
CommonPathIs(src_path, preferred_src) == IsUnder(src_path, preferred_src)

\* Python's s[:-4] and s[-4:]
AllButLast4(s) == IF Len(s) <= 4 THEN "" ELSE SubSeq(s, 1, Len(s) - 4)
Last4(s) == IF Len(s) <= 4 THEN s ELSE SubSeq(s, Len(s) - 3, Len(s))

\* f"{dst_path[:-4]}_v{i+1}{dst_path[-4:]}", n = i+1
VersionedPath(dst_path, n) == AllButLast4(dst_path) \o "_v" \o ToString(n) \o Last4(dst_path)

\* The directory d and its ancestors (what os.makedirs(d) makes exist).
WithAncestors(d) ==
    {d} \cup {SubSeq(d, 1, i - 1) : i \in {j \in 2..Len(d) : SubSeq(d, j, j) = "/"}}

\* Number of "/" in p: the depth at which os.walk finds it.
Depth(p) == Cardinality({i \in 1..Len(p) : SubSeq(p, i, i) = "/"})

(* ------------------------------ state --------------------------------- *)
VARIABLES
    impl,              \* which merge_directories runs: "file_operations" or "core"
    files,             \* the file system: path -> content, for the files that exist
    dirs,              \* the directories that exist
    conflict_resolver, \* "hash", "keep_both" or "preferred"
    kwargs,            \* the resolver's preferred_src, or "" when it is not passed
    num_threads,       \* max_workers of the pool
    plan,              \* the dry_run flags of the invocations the caller makes
    dry_run,           \* the dry_run flag of the current invocation
    pcMain,            \* the coordinator: "loop", "joined", "returned", "raised"
    yielded,           \* the (root, path) pairs file_gen has produced so far
    processed_files,   \* merge_directories' processed_files
    tasks,             \* the submitted copy_file calls, in submission order
    summary,           \* the run summary
    summary_lock,      \* 0 when free, else the index of the task holding it
    progress_counter,  \* progress_counter[0]
    logFile,           \* the log file at log_file_path, a path outside the source and
                       \* destination trees: the records in it (<<>> when absent)
    logFile0,          \* the log file when the current invocation started
    run,               \* number of the current invocation
    prev,              \* what the earlier invocations returned
    files0,            \* the file system when the current invocation started
    dirs0,             \* the directories when the current invocation started
    faults,            \* failures injected so far
    smart              \* the pairwise merger: its overwrite flag, position, chosen
                       \* source and target folders and the paths left to copy

vars == <<impl, files, dirs, conflict_resolver, kwargs, num_threads, plan, dry_run,
          pcMain, yielded, processed_files, tasks, summary, summary_lock,
          progress_counter, logFile, logFile0, run, prev, files0, dirs0,
          faults, smart>>

config == <<impl, conflict_resolver, kwargs, num_threads, plan, smart>>


(* --------------------------- the file system -------------------------- *)
\* os.path.exists
Exists(p) == p \in DOMAIN files \/ p \in dirs

\* The content a file of a source root is created with: no two source files agree.
SourceContent(p) == p

\* A slip: shutil.copy is called with its arguments in the other order.
Written_reversed(to, from) ==
    IF to \in DOMAIN files THEN (from :> files[to]) @@ files ELSE files

\* The file system after a copy of the file at `from` to the path `to`.
Written(to, from) == (to :> files[from]) @@ files

\* shutil.copy(from, to) can succeed: the source is a file and the target's
\* directory exists.
CanCopy(from, to) == from \in DOMAIN files /\ dirname(to) \in dirs

\* hashlib.sha256(...).hexdigest() of a content: distinct contents, distinct digests.
sha256(content) == <<"sha256", content>>

(* ------------------------------ resolvers ----------------------------- *)
\* A resolver's answer: kind "none" (None), "list" (a list of paths),
\* "single" (one path), "oserror" (it raised an OSError) or "typeerror".
Answer(kind, paths) == [kind |-> kind, paths |-> paths]

\* A slip: the keep-both list names the destination first.
resolve_conflict_by_hash_swapped(src_path, dst_path) ==
    IF src_path \notin DOMAIN files \/ dst_path \notin DOMAIN files
    THEN Answer("oserror", <<>>)
    ELSE IF sha256(files[src_path]) = sha256(files[dst_path])
         THEN Answer("none", <<>>)
         ELSE Answer("list", <<dst_path, src_path>>)

\* A slip: the digests are taken of the paths, not of the files' contents.
resolve_conflict_by_hash_of_paths(src_path, dst_path) ==
    IF src_path \notin DOMAIN files \/ dst_path \notin DOMAIN files
    THEN Answer("oserror", <<>>)
    ELSE IF sha256(src_path) = sha256(dst_path)
         THEN Answer("none", <<>>)
         ELSE Answer("list", <<src_path, dst_path>>)

resolve_conflict_by_hash(src_path, dst_path) ==
    IF src_path \notin DOMAIN files \/ dst_path \notin DOMAIN files
    THEN Answer("oserror", <<>>)
    ELSE IF sha256(files[src_path]) = sha256(files[dst_path])
         THEN Answer("none", <<>>)
         ELSE Answer("list", <<src_path, dst_path>>)

keep_both_files(src_path, dst_path) == Answer("list", <<src_path, dst_path>>)

keep_files_from_preferred_src(src_path, dst_path) ==
    IF kwargs = ""
    THEN Answer("typeerror", <<>>)
    ELSE IF CommonPathIs(src_path, kwargs)
         THEN Answer("single", <<src_path>>)
         ELSE Answer("none", <<>>)

\* conflict_resolver(src_path, dst_path, **kwargs)
Resolve(src_path, dst_path) ==
    CASE conflict_resolver = "hash" -> resolve_conflict_by_hash(src_path, dst_path)
      [] conflict_resolver = "keep_both" -> keep_both_files(src_path, dst_path)
      [] OTHER -> keep_files_from_preferred_src(src_path, dst_path)

(* ------------------------------- summary ------------------------------ *)
EmptySummary ==
    [files_copied |-> 0, directories_created |-> 0, conflicts |-> <<>>, errors |-> <<>>]

\* The structured record copy_file appends to errors.
ErrorRecord(tk, msg) == [src |-> tk.src, dst |-> tk.dst, error |-> msg]

(* -------------------------------- tasks ------------------------------- *)
\* One submitted copy_file(src_path, dst_path, ...) call and its local variables.
NewTask(src_path, dst_path) ==
    [src |-> src_path, dst |-> dst_path, pc |-> "queued",
     files_copied |-> 0, directories_created |-> 0,
     conflicts |-> <<>>, errors |-> <<>>,
     consulted |-> FALSE, resolved_paths |-> <<>>, i |-> 0, tmp |-> 0,
     seen |-> EmptySummary,
     copied |-> 0]            \* the shutil.copy calls of the task that have returned

Finished(tk) == tk.pc \in {"done", "crashed"}
Running(tk) == tk.pc \notin {"queued", "done", "crashed"}
RunningTasks == {t \in 1..Len(tasks) : Running(tasks[t])}
QueuedTasks == {t \in 1..Len(tasks) : tasks[t].pc = "queued"}

\* The except clause: record the error, go on to the summary update.
Raised(tk, msg) == [tk EXCEPT !.errors = Append(@, ErrorRecord(tk, msg)), !.pc = "lock"]

\* A slip: the copy is made whatever dry_run says.
EnterCopy_ignoring_dry_run(tk) == [tk EXCEPT !.files_copied = @ + 1, !.pc = "dircheck"]

\* A slip: files_copied is counted before dry_run is tested.
EnterCopy_counting_dry_run(tk) ==
    IF dry_run
    THEN [tk EXCEPT !.files_copied = @ + 1, !.pc = "prog_read"]
    ELSE [tk EXCEPT !.files_copied = @ + 1, !.pc = "dircheck"]

\* The "Copy file to destination" part of copy_file is reached.
EnterCopy(tk) ==
    IF dry_run
    THEN [tk EXCEPT !.pc = "prog_read"]
    ELSE [tk EXCEPT !.files_copied = @ + 1, !.pc = "dircheck"]

\* An iteration of the loop over resolved_paths starts.
EnterIteration(tk, n) == [tk EXCEPT !.i = n, !.files_copied = @ + 1, !.pc = "v_dircheck"]


(* ------------------------------- Init --------------------------------- *)
\* The files of a source tree holding the relative paths S below root.
TreeFiles(root, S) == {join(root, p) : p \in S}

\* The directories a set of file paths needs.
DirsOf(F) == UNION {WithAncestors(dirname(f)) : f \in F}

\* The contents a file that is already in the destination at p may have:
\* something no source holds, or the content of the source file that will be
\* copied to p (the one of the first root that holds p).
PreContents(p, F) ==
    {"old"} \cup {SourceContent(join(src_dirs[r], p)) :
                    r \in {q \in 1..Len(src_dirs) :
                             /\ join(src_dirs[q], p) \in F
                             /\ \A o \in 1..(q - 1) : join(src_dirs[o], p) \notin F}}

\* The resolver configurations: the resolver and its preferred_src keyword.
ResolverConfigs ==
    {<<"hash", "">>, <<"keep_both", "">>}
      \cup {<<"preferred", k>> : k \in {"", src_dirs[1], src_dirs[2]}}

\* The source trees tried, as the sets of relative paths of the two roots.
\* (d/c.txt and a_v1.txt only matter beside d/b.txt and a.txt; d/e/f.txt, the
\* file two levels deep, alone or beside d/b.txt in its parent.)  A first root
\* with no relative path stands for a root that does not exist.
SourceTrees ==
    {ss \in (SUBSET RelPaths) \X (SUBSET RelPaths) :
       LET U == ss[1] \cup ss[2]
       IN  /\ U # {}
           /\ Cardinality(U) <= MaxFiles
           /\ "d/c.txt" \in U => "d/b.txt" \in U
           /\ "a_v1.txt" \in U => "a.txt" \in U
           /\ "d/e/f.txt" \in U => U \subseteq {"d/e/f.txt", "d/b.txt"}}

\* The caller's plans: the dry_run flag of each invocation it makes.
Plans == UNION {[1..n -> BOOLEAN] : n \in 1..MaxRuns}

\* The pairwise merger is not running.
NoSmartMerge ==
    [pc |-> "idle", overwrite |-> FALSE, source |-> "", target |-> "", pending |-> {}]

Init ==
    /\ impl \in {"file_operations", "core"}
    /\ \E ss \in SourceTrees, pl \in Plans :
         /\ Len(pl) > 1 => Cardinality(ss[1] \cup ss[2]) <= MaxRerunFiles
         /\ plan = pl
         /\ \E P \in SUBSET (ss[1] \cup ss[2]) :
              /\ Cardinality(P) <= MaxPre
              /\ LET F == TreeFiles(src_dirs[1], ss[1]) \cup TreeFiles(src_dirs[2], ss[2])
                 IN  \E pre \in [TreeFiles(dst_dir, P) -> {"old"} \cup F] :
                       /\ \A q \in DOMAIN pre : pre[q] \in PreContents(relpath(q, dst_dir), F)
                       /\ files = pre @@ [f \in F |-> SourceContent(f)]
                       /\ dirs = (IF ss[1] = {} THEN {} ELSE {src_dirs[1]})
                                   \cup {src_dirs[2], dst_dir}
                                   \cup DirsOf(F) \cup DirsOf(DOMAIN pre)
    /\ \E rc \in ResolverConfigs : conflict_resolver = rc[1] /\ kwargs = rc[2]
    /\ num_threads \in 1..MaxThreads
    /\ dry_run = plan[1]
    /\ pcMain = "loop"
    /\ yielded = {}
    /\ processed_files = {}
    /\ tasks = <<>>
    /\ summary = EmptySummary
    /\ summary_lock = 0
    /\ progress_counter = 0
    /\ logFile = <<>>
    /\ logFile0 = <<>>
    /\ run = 1
    /\ prev = <<>>
    /\ files0 = files
    /\ dirs0 = dirs
    /\ faults = 0
    /\ smart = NoSmartMerge

(* ----------------------- the coordinator thread ----------------------- *)
\* collect_files_gen(root): the files os.walk finds below root.
collect_files_gen(root) ==
    IF root \notin dirs
    THEN {}
    ELSE {f \in DOMAIN files : IsUnder(f, root) /\ f # root}

\* The root itertools.chain is reading: the first one with files left to yield.
RootsLeft == {r \in 1..Len(src_dirs) : collect_files_gen(src_dirs[r]) \ yielded # {}}
CurrentRoot == CHOOSE r \in RootsLeft : \A q \in RootsLeft : r <= q

\* What file_gen may yield next: os.walk lists a directory's files before it
\* descends, in an order the file system chooses.
NextYield ==
    IF RootsLeft = {} THEN {}
    ELSE LET left == collect_files_gen(src_dirs[CurrentRoot]) \ yielded
         IN  {f \in left : \A g \in left : Depth(f) <= Depth(g)}

\* One iteration of the loop of merge_directories that submits copy_file.
\* (The progress line it prints reads progress_counter[0] and changes nothing.)
Submit ==
    /\ impl = "file_operations"
    /\ pcMain = "loop"
    /\ \E src_path \in NextYield :
         LET relative_path == relpath(src_path, src_dirs[CurrentRoot])
         IN  /\ relative_path \notin processed_files
             /\ processed_files' = processed_files \cup {relative_path}
             /\ tasks' = Append(tasks, NewTask(src_path, join(dst_dir, relative_path)))
             /\ yielded' = yielded \cup {src_path}
    /\ UNCHANGED <<files, dirs, config, dry_run, pcMain, summary, summary_lock,
                   progress_counter, logFile, logFile0, run, prev, files0, dirs0, faults>>

\* One iteration that hits `continue`: the relative path is already claimed.
SkipProcessed ==
    /\ impl = "file_operations"
    /\ pcMain = "loop"
    /\ \E src_path \in NextYield :
         /\ relpath(src_path, src_dirs[CurrentRoot]) \in processed_files
         /\ yielded' = yielded \cup {src_path}
    /\ UNCHANGED <<files, dirs, config, dry_run, pcMain, processed_files, tasks, summary,
                   summary_lock, progress_counter, logFile, logFile0, run, prev, files0, dirs0, faults>>

\* A slip: the pool is shut down without waiting (shutdown(wait=False)).
Join_without_wait ==
    /\ impl = "file_operations"
    /\ pcMain = "loop"
    /\ NextYield = {}
    /\ pcMain' = "joined"
    /\ UNCHANGED <<files, dirs, config, dry_run, yielded, processed_files, tasks, summary,
                   summary_lock, progress_counter, logFile, logFile0, run, prev, files0, dirs0, faults>>

\* The with block ends: ThreadPoolExecutor.__exit__ waits for every task.
Join ==
    /\ impl = "file_operations"
    /\ pcMain = "loop"
    /\ NextYield = {}
    /\ \A t \in 1..Len(tasks) : Finished(tasks[t])
    /\ pcMain' = "joined"
    /\ UNCHANGED <<files, dirs, config, dry_run, yielded, processed_files, tasks, summary,
                   summary_lock, progress_counter, logFile, logFile0, run, prev, files0, dirs0, faults>>

\* JSON text, as far as the summary needs it: an int is written as its
\* decimal digits, a str between double quotes, a list as the sequence of its
\* items' texts and a dict as the mapping of its keys to its values' texts.
json_str(x) == "\"" \o x \o "\""
json_dump(s) ==
    [files_copied |-> ToString(s.files_copied),
     directories_created |-> ToString(s.directories_created),
     conflicts |-> [i \in 1..Len(s.conflicts) |-> json_str(s.conflicts[i])],
     errors |-> [i \in 1..Len(s.errors) |->
                   [k \in DOMAIN s.errors[i] |-> json_str(s.errors[i][k])]]]

\* json.load: the digits are read as an int, the quotes taken off a str.
json_digit(c) == CHOOSE d \in 0..9 : ToString(d) = c
RECURSIVE json_int(_)
json_int(x) ==
    IF Len(x) = 0 THEN 0
    ELSE 10 * json_int(SubSeq(x, 1, Len(x) - 1)) + json_digit(SubSeq(x, Len(x), Len(x)))
json_unquoted(x) == SubSeq(x, 2, Len(x) - 1)
json_load(doc) ==
    [files_copied |-> json_int(doc.files_copied),
     directories_created |-> json_int(doc.directories_created),
     conflicts |-> [i \in 1..Len(doc.conflicts) |-> json_unquoted(doc.conflicts[i])],
     errors |-> [i \in 1..Len(doc.errors) |->
                   [k \in DOMAIN doc.errors[i] |-> json_unquoted(doc.errors[i][k])]]]

\* write_summary_to_log: open(log_file_path, 'w') and json.dump(summary): the
\* file then holds this one document.
write_summary_to_log(s) == <<json_dump(s)>>

\* log_file_path is set: the summary is written, then returned.  (log_file_path
\* is read nowhere else, so the caller's choice of it is drawn here.)
ReturnLogged ==
    /\ pcMain = "joined"
    /\ logFile' = write_summary_to_log(summary)
    /\ pcMain' = "returned"
    /\ UNCHANGED <<files, dirs, config, dry_run, yielded, processed_files, tasks, summary,
                   summary_lock, progress_counter, logFile0, run, prev, files0, dirs0,
                   faults>>

\* log_file_path is None: the summary is returned.
Return ==
    /\ pcMain = "joined"
    /\ pcMain' = "returned"
    /\ UNCHANGED <<files, dirs, config, dry_run, yielded, processed_files, tasks, summary,
                   summary_lock, progress_counter, logFile, logFile0, run, prev, files0, dirs0, faults>>

\* The caller invokes merge_directories again, with the same arguments but
\* for dry_run, on the file system the last invocation left.
Invoke ==
    /\ pcMain = "returned"
    /\ run < Len(plan)
    /\ run' = run + 1
    /\ prev' = Append(prev, [dry_run |-> dry_run, summary |-> summary,
                             files0 |-> files0, dirs0 |-> dirs0])
    /\ dry_run' = plan[run + 1]
    /\ pcMain' = "loop"
    /\ yielded' = {}
    /\ processed_files' = {}
    /\ tasks' = <<>>
    /\ summary' = EmptySummary
    /\ summary_lock' = 0
    /\ progress_counter' = 0
    /\ files0' = files
    /\ dirs0' = dirs
    /\ logFile0' = logFile
    /\ UNCHANGED <<files, dirs, config, logFile, faults>>


(* --------------------------- the worker threads ----------------------- *)
\* What a copy_file step leaves alone besides the task list and the file system.
UNCHANGED_worker ==
    UNCHANGED <<config, dry_run, pcMain, yielded, processed_files, summary,
                summary_lock, progress_counter, logFile, logFile0, run, prev, files0, dirs0>>

\* A worker takes the oldest queued task and copy_file tests
\* os.path.exists(dst_path).
Start(t) ==
    /\ tasks[t].pc = "queued"
    /\ \A q \in QueuedTasks : t <= q
    /\ Cardinality(RunningTasks) < num_threads
    /\ tasks' = [tasks EXCEPT ![t] =
                   IF Exists(tasks[t].dst) THEN [@ EXCEPT !.pc = "resolve"] ELSE EnterCopy(@)]
    /\ UNCHANGED <<files, dirs, faults>>
    /\ UNCHANGED_worker

\* A slip: the loop over resolved_paths counts a copy only when it makes it.
Resolved_counting_real_copies(tk, answer) ==
    CASE answer.kind = "oserror" -> Raised(tk, "FileNotFoundError")
      [] answer.kind = "typeerror" -> [tk EXCEPT !.pc = "crashed"]
      [] answer.kind = "none" -> EnterCopy([tk EXCEPT !.conflicts = Append(@, tk.dst)])
      [] answer.kind = "single" -> EnterCopy([tk EXCEPT !.src = answer.paths[1]])
      [] OTHER ->
           IF dry_run
           THEN EnterCopy([tk EXCEPT !.resolved_paths = answer.paths,
                                     !.i = Len(answer.paths)])
           ELSE EnterIteration([tk EXCEPT !.resolved_paths = answer.paths], 1)

\* What copy_file does with the resolver's answer.
Resolved(tk, answer) ==
    CASE answer.kind = "oserror" -> Raised(tk, "FileNotFoundError")
      [] answer.kind = "typeerror" -> [tk EXCEPT !.pc = "crashed"]
      [] answer.kind = "none" -> EnterCopy([tk EXCEPT !.conflicts = Append(@, tk.dst)])
      [] answer.kind = "single" -> EnterCopy([tk EXCEPT !.src = answer.paths[1]])
      [] OTHER ->
           IF dry_run
           THEN EnterCopy([tk EXCEPT !.resolved_paths = answer.paths,
                                     !.i = Len(answer.paths),
                                     !.files_copied = @ + Len(answer.paths)])
           ELSE EnterIteration([tk EXCEPT !.resolved_paths = answer.paths], 1)

\* conflict_resolver(src_path, dst_path, **kwargs) and the branch on its answer.
\* A TypeError is not caught by copy_file: the task ends in its Future.
CallResolver(t) ==
    /\ tasks[t].pc = "resolve"
    /\ tasks' = [tasks EXCEPT ![t] =
                   Resolved([@ EXCEPT !.consulted = TRUE], Resolve(@.src, @.dst))]
    /\ UNCHANGED <<files, dirs, faults>>
    /\ UNCHANGED_worker

\* if not os.path.exists(dst_dir), in the loop over resolved_paths and before
\* the plain copy.
CheckDir(t) ==
    /\ tasks[t].pc \in {"dircheck", "v_dircheck"}
    /\ LET made == Exists(dirname(tasks[t].dst))
           loop == tasks[t].pc = "v_dircheck"
       IN  tasks' = [tasks EXCEPT ![t].pc =
                       IF made THEN (IF loop THEN "v_copy" ELSE "copy")
                               ELSE (IF loop THEN "v_mkdir" ELSE "mkdir")]
    /\ UNCHANGED <<files, dirs, faults>>
    /\ UNCHANGED_worker

\* os.makedirs(dst_dir); directories_created += 1.  It raises FileExistsError
\* when the directory has appeared since the test.
Makedirs(t) ==
    /\ tasks[t].pc \in {"mkdir", "v_mkdir"}
    /\ LET dst_dir_ == dirname(tasks[t].dst)
       IN  IF Exists(dst_dir_)
           THEN /\ tasks' = [tasks EXCEPT ![t] = Raised(@, "FileExistsError")]
                /\ dirs' = dirs
           ELSE /\ dirs' = dirs \cup WithAncestors(dst_dir_)
                /\ tasks' = [tasks EXCEPT ![t].directories_created = @ + 1,
                                          ![t].pc = IF tasks[t].pc = "mkdir" THEN "copy" ELSE "v_copy"]
    /\ UNCHANGED <<files, faults>>
    /\ UNCHANGED_worker

\* shutil.copy(path, versioned_dst_path) of the loop over resolved_paths, and the
\* step to the next iteration or to the plain copy.
CopyVersioned(t) ==
    /\ tasks[t].pc = "v_copy"
    /\ LET tk == tasks[t]
           path == tk.resolved_paths[tk.i]
           versioned_dst_path == VersionedPath(tk.dst, tk.i)
       IN  IF CanCopy(path, versioned_dst_path)
           THEN /\ files' = Written(versioned_dst_path, path)
                /\ tasks' = [tasks EXCEPT ![t] =
                               IF tk.i < Len(tk.resolved_paths)
                               THEN EnterIteration([@ EXCEPT !.copied = @ + 1], tk.i + 1)
                               ELSE EnterCopy([@ EXCEPT !.copied = @ + 1])]
           ELSE /\ files' = files
                /\ tasks' = [tasks EXCEPT ![t] = Raised(@, "FileNotFoundError")]
    /\ UNCHANGED <<dirs, faults>>
    /\ UNCHANGED_worker

\* shutil.copy(src_path, dst_path)
Copy(t) ==
    /\ tasks[t].pc = "copy"
    /\ LET tk == tasks[t]
       IN  IF CanCopy(tk.src, tk.dst)
           THEN /\ files' = Written(tk.dst, tk.src)
                /\ tasks' = [tasks EXCEPT ![t].copied = @ + 1, ![t].pc = "prog_read"]
           ELSE /\ files' = files
                /\ tasks' = [tasks EXCEPT ![t] = Raised(@, "FileNotFoundError")]
    /\ UNCHANGED <<dirs, faults>>
    /\ UNCHANGED_worker

\* progress_counter[0] += 1 is a read and a later write, outside the lock.
ReadProgress(t) ==
    /\ tasks[t].pc = "prog_read"
    /\ tasks' = [tasks EXCEPT ![t].tmp = progress_counter, ![t].pc = "prog_write"]
    /\ UNCHANGED <<files, dirs, faults>>
    /\ UNCHANGED_worker

WriteProgress(t) ==
    /\ tasks[t].pc = "prog_write"
    /\ progress_counter' = tasks[t].tmp + 1
    /\ tasks' = [tasks EXCEPT ![t].tmp = 0, ![t].pc = "lock"]
    /\ UNCHANGED <<files, dirs, faults, config, dry_run, pcMain, yielded, processed_files,
                   summary, summary_lock, logFile, logFile0, run, prev, files0, dirs0>>

\* A slip: the summary is updated without waiting for the lock.
Acquire_without_waiting(t) ==
    /\ tasks[t].pc = "lock"
    /\ summary_lock' = t
    /\ tasks' = [tasks EXCEPT ![t].pc = "update"]
    /\ UNCHANGED <<files, dirs, faults, config, dry_run, pcMain, yielded, processed_files,
                   summary, progress_counter, logFile, logFile0, run, prev, files0, dirs0>>

\* with summary_lock: the acquire
Acquire(t) ==
    /\ tasks[t].pc = "lock"
    /\ summary_lock = 0
    /\ summary_lock' = t
    /\ tasks' = [tasks EXCEPT ![t].pc = "update"]
    /\ UNCHANGED <<files, dirs, faults, config, dry_run, pcMain, yielded, processed_files,
                   summary, progress_counter, logFile, logFile0, run, prev, files0, dirs0>>

\* The summary after copy_file has added its local results.
Updated(s, tk) ==
    [files_copied |-> s.files_copied + tk.files_copied,
     directories_created |-> s.directories_created + tk.directories_created,
     conflicts |-> s.conflicts \o tk.conflicts,
     errors |-> s.errors \o tk.errors]

\* The body of the with block reads the summary (each += and extend is a
\* read of the shared dictionary and a later write).
ReadSummary(t) ==
    /\ tasks[t].pc = "update"
    /\ tasks' = [tasks EXCEPT ![t].seen = summary, ![t].pc = "write"]
    /\ UNCHANGED <<files, dirs, faults>>
    /\ UNCHANGED_worker

\* A slip: the summary is written back and the lock is kept.
UpdateSummary_keeping_lock(t) ==
    /\ tasks[t].pc = "write"
    /\ summary' = Updated(tasks[t].seen, tasks[t])
    /\ tasks' = [tasks EXCEPT ![t].seen = EmptySummary, ![t].pc = "done"]
    /\ UNCHANGED <<files, dirs, faults, config, dry_run, pcMain, yielded, processed_files,
                   summary_lock, progress_counter, logFile, logFile0, run, prev, files0, dirs0>>

\* The body of the with block writes the summary back, and the release.
UpdateSummary(t) ==
    /\ tasks[t].pc = "write"
    /\ summary' = Updated(tasks[t].seen, tasks[t])
    /\ summary_lock' = 0
    /\ tasks' = [tasks EXCEPT ![t].seen = EmptySummary, ![t].pc = "done"]
    /\ UNCHANGED <<files, dirs, faults, config, dry_run, pcMain, yielded, processed_files,
                   progress_counter, logFile, logFile0, run, prev, files0, dirs0>>

\* The operating system refuses a task's next system call (the resolver's
\* open, os.makedirs or shutil.copy) with PermissionError.
SyscallFails(t) ==
    /\ faults < MaxFaults
    /\ \/ tasks[t].pc = "resolve" /\ conflict_resolver = "hash"
       \/ tasks[t].pc \in {"mkdir", "v_mkdir", "copy", "v_copy"}
    /\ faults' = faults + 1
    /\ tasks' = [tasks EXCEPT ![t] =
                   Raised([@ EXCEPT !.consulted = @ \/ tasks[t].pc = "resolve"],
                          "PermissionError")]
    /\ UNCHANGED <<files, dirs>>
    /\ UNCHANGED_worker

(* ------------- mergefiles/core.py: the sequential merge --------------- *)
\* core.py's merge_directories copies in the loop itself: it submits nothing
\* to the pool, calls no resolver and takes no lock.
UNCHANGED_core ==
    UNCHANGED <<config, dry_run, tasks, summary_lock, progress_counter, logFile,
                logFile0, run, prev, files0, dirs0>>

\* What core.py appends to errors: str(e), the message alone.
ErrorString(msg) == [error |-> msg]

\* The directory test of one iteration: os.makedirs is due.
CoreMakes(dst_path) == ~Exists(dirname(dst_path)) /\ ~dry_run

\* The summary and directories after the "Ensure the destination directory
\* exists" part of an iteration.
CoreDirs(dst_path) ==
    IF CoreMakes(dst_path) THEN dirs \cup WithAncestors(dirname(dst_path)) ELSE dirs
CoreCounted(dst_path) ==
    IF CoreMakes(dst_path)
    THEN [summary EXCEPT !.directories_created = @ + 1]
    ELSE summary

\* One iteration of the loop for a relative path not yet claimed, nothing failing.
CoreCopy ==
    /\ impl = "core"
    /\ pcMain = "loop"
    /\ \E src_path \in NextYield :
         LET relative_path == relpath(src_path, src_dirs[CurrentRoot])
             dst_path == join(dst_dir, relative_path)
         IN  /\ relative_path \notin processed_files
             /\ processed_files' = processed_files \cup {relative_path}
             /\ yielded' = yielded \cup {src_path}
             /\ dirs' = CoreDirs(dst_path)
             /\ IF dry_run
                THEN files' = files /\ summary' = summary
                ELSE /\ files' = Written(dst_path, src_path)
                     /\ summary' = [CoreCounted(dst_path) EXCEPT !.files_copied = @ + 1]
    /\ UNCHANGED <<pcMain, faults>>
    /\ UNCHANGED_core

\* One iteration that hits `continue`.
CoreSkipProcessed ==
    /\ impl = "core"
    /\ pcMain = "loop"
    /\ \E src_path \in NextYield :
         /\ relpath(src_path, src_dirs[CurrentRoot]) \in processed_files
         /\ yielded' = yielded \cup {src_path}
    /\ UNCHANGED <<files, dirs, pcMain, processed_files, summary, faults>>
    /\ UNCHANGED_core

\* os.makedirs is refused: it stands outside the try, the error leaves
\* merge_directories.
CoreMakedirsRaises ==
    /\ impl = "core"
    /\ pcMain = "loop"
    /\ faults < MaxFaults
    /\ \E src_path \in NextYield :
         LET relative_path == relpath(src_path, src_dirs[CurrentRoot])
         IN  /\ relative_path \notin processed_files
             /\ CoreMakes(join(dst_dir, relative_path))
             /\ processed_files' = processed_files \cup {relative_path}
             /\ yielded' = yielded \cup {src_path}
    /\ faults' = faults + 1
    /\ pcMain' = "raised"
    /\ UNCHANGED <<files, dirs, summary>>
    /\ UNCHANGED_core

\* shutil.copy is refused: except Exception appends str(e).
CoreCopyFails ==
    /\ impl = "core"
    /\ pcMain = "loop"
    /\ faults < MaxFaults
    /\ ~dry_run
    /\ \E src_path \in NextYield :
         LET relative_path == relpath(src_path, src_dirs[CurrentRoot])
             dst_path == join(dst_dir, relative_path)
         IN  /\ relative_path \notin processed_files
             /\ processed_files' = processed_files \cup {relative_path}
             /\ yielded' = yielded \cup {src_path}
             /\ dirs' = CoreDirs(dst_path)
             /\ summary' = [CoreCounted(dst_path) EXCEPT
                              !.errors = Append(@, ErrorString("PermissionError"))]
    /\ faults' = faults + 1
    /\ UNCHANGED <<files, pcMain>>
    /\ UNCHANGED_core

\* The record logger.info leaves in the file of the logger's FileHandler.
LoggedMessage(s) ==
    [levelname |-> "INFO", message |-> "Merge operation completed. Summary:", summary |-> s]

\* log_file_path is set: the loop and the (empty) pool end, logger.info
\* appends its record to the log file, the summary is returned.  (setup_logger
\* opens the file for appending before the loop; nothing reads it until here.)
CoreReturnLogged ==
    /\ impl = "core"
    /\ pcMain = "loop"
    /\ NextYield = {}
    /\ logFile' = Append(logFile, LoggedMessage(summary))
    /\ pcMain' = "returned"
    /\ UNCHANGED <<files, dirs, config, dry_run, yielded, processed_files, tasks, summary,
                   summary_lock, progress_counter, logFile0, run, prev, files0, dirs0,
                   faults>>

\* log_file_path is None: the loop and the (empty) pool end; logger.info
\* writes to the console; return summary.
CoreReturn ==
    /\ impl = "core"
    /\ pcMain = "loop"
    /\ NextYield = {}
    /\ pcMain' = "returned"
    /\ UNCHANGED <<files, dirs, yielded, processed_files, summary, faults>>
    /\ UNCHANGED_core

(* ------------------- the Smart Pairwise Merger ------------------------ *)
\* smartMerge(folderA, folderB, overwrite): the two folders.
folderA == src_dirs[1]
folderB == src_dirs[2]

\* The relative file paths under a folder (full recursive descent).
RelativePaths(folder) == {relpath(f, folder) : f \in collect_files_gen(folder)}

\* missingInA = B - A and missingInB = A - B.
missingInA == RelativePaths(folderB) \ RelativePaths(folderA)
missingInB == RelativePaths(folderA) \ RelativePaths(folderB)

\* A slip: the first argument always receives the copies.
EffectiveTarget_first_argument == folderA

\* The folder that receives the copies: the one that is missing more files;
\* when both are missing as many, no swap: the first argument.
EffectiveTarget ==
    IF Cardinality(missingInB) > Cardinality(missingInA) THEN folderB ELSE folderA
EffectiveSource == IF EffectiveTarget = folderA THEN folderB ELSE folderA

\* The files copied: the target's deficit, and with overwrite every file that
\* is in both folders.
FilesToCopy ==
    (RelativePaths(EffectiveSource) \ RelativePaths(EffectiveTarget))
      \cup (IF smart.overwrite
            THEN RelativePaths(folderA) \cap RelativePaths(folderB)
            ELSE {})

\* What a step of the pairwise merger leaves alone: it has no pool, no
\* summary and no log.
UNCHANGED_smart ==
    UNCHANGED <<impl, conflict_resolver, kwargs, num_threads, plan, dry_run, pcMain,
                yielded, processed_files, tasks, summary, summary_lock, progress_counter,
                logFile, logFile0, run, prev, files0, dirs0>>

\* The folders tried: any two sets of relative paths, the files of the two
\* folders at one path differing in content.
InitSmart ==
    /\ impl = "smart_merge"
    /\ \E ss \in (SUBSET RelPaths) \X (SUBSET RelPaths) :
         LET F == TreeFiles(folderA, ss[1]) \cup TreeFiles(folderB, ss[2])
         IN  /\ files = [f \in F |-> SourceContent(f)]
             /\ dirs = {folderA, folderB} \cup DirsOf(F)
    /\ \E o \in BOOLEAN : smart = [NoSmartMerge EXCEPT !.pc = "start", !.overwrite = o]
    /\ conflict_resolver = "hash"
    /\ kwargs = ""
    /\ num_threads = 1
    /\ plan = <<FALSE>>
    /\ dry_run = FALSE
    /\ pcMain = "loop"
    /\ yielded = {}
    /\ processed_files = {}
    /\ tasks = <<>>
    /\ summary = EmptySummary
    /\ summary_lock = 0
    /\ progress_counter = 0
    /\ logFile = <<>>
    /\ logFile0 = <<>>
    /\ run = 1
    /\ prev = <<>>
    /\ files0 = files
    /\ dirs0 = dirs
    /\ faults = 0

\* The two folders are enumerated and the direction of copy is chosen.
SmartOrient ==
    /\ smart.pc = "start"
    /\ smart' = [smart EXCEPT !.pc = "copy", !.source = EffectiveSource,
                              !.target = EffectiveTarget, !.pending = FilesToCopy]
    /\ UNCHANGED <<files, dirs, faults>>
    /\ UNCHANGED_smart

\* One synchronous copy, the directories of the target path created as needed.
SmartCopy ==
    /\ smart.pc = "copy"
    /\ \E f \in smart.pending :
         /\ dirs' = dirs \cup WithAncestors(dirname(join(smart.target, f)))
         /\ files' = Written(join(smart.target, f), join(smart.source, f))
         /\ smart' = [smart EXCEPT !.pending = @ \ {f}]
    /\ UNCHANGED faults
    /\ UNCHANGED_smart

\* A copy fails: the pairwise merger raises at once.
SmartCopyFails ==
    /\ smart.pc = "copy"
    /\ smart.pending # {}
    /\ faults < MaxFaults
    /\ faults' = faults + 1
    /\ smart' = [smart EXCEPT !.pc = "raised"]
    /\ UNCHANGED <<files, dirs>>
    /\ UNCHANGED_smart

\* Nothing is left to copy: smartMerge returns.
SmartReturn ==
    /\ smart.pc = "copy"
    /\ smart.pending = {}
    /\ smart' = [smart EXCEPT !.pc = "done"]
    /\ UNCHANGED <<files, dirs, faults>>
    /\ UNCHANGED_smart

NextSmart ==
    \/ SmartOrient
    \/ SmartCopy
    \/ SmartCopyFails
    \/ SmartReturn

SpecSmart == InitSmart /\ [][NextSmart]_vars

Next ==
    \/ Submit
    \/ SkipProcessed
    \/ Join
    \/ ReturnLogged
    \/ Return
    \/ Invoke
    \/ \E t \in 1..Len(tasks) : Start(t)
    \/ \E t \in 1..Len(tasks) : CallResolver(t)
    \/ \E t \in 1..Len(tasks) : CheckDir(t)
    \/ \E t \in 1..Len(tasks) : Makedirs(t)
    \/ \E t \in 1..Len(tasks) : CopyVersioned(t)
    \/ \E t \in 1..Len(tasks) : Copy(t)
    \/ \E t \in 1..Len(tasks) : ReadProgress(t)
    \/ \E t \in 1..Len(tasks) : WriteProgress(t)
    \/ \E t \in 1..Len(tasks) : Acquire(t)
    \/ \E t \in 1..Len(tasks) : ReadSummary(t)
    \/ \E t \in 1..Len(tasks) : UpdateSummary(t)
    \/ \E t \in 1..Len(tasks) : SyscallFails(t)
    \/ CoreCopy
    \/ CoreSkipProcessed
    \/ CoreMakedirsRaises
    \/ CoreCopyFails
    \/ CoreReturnLogged
    \/ CoreReturn

Spec == Init /\ [][Next]_vars


(* ------------------------------ scheduling ---------------------------- *)
\* A step of a pool thread running copy_file.
WorkerStep ==
    \E t \in 1..Len(tasks) :
       \/ Start(t) \/ CallResolver(t) \/ CheckDir(t) \/ Makedirs(t) \/ CopyVersioned(t)
       \/ Copy(t) \/ ReadProgress(t) \/ WriteProgress(t) \/ Acquire(t) \/ ReadSummary(t)
       \/ UpdateSummary(t)

\* A step of the thread that runs merge_directories.
CoordinatorStep ==
    \/ Submit \/ SkipProcessed \/ Join \/ ReturnLogged \/ Return
    \/ CoreCopy \/ CoreSkipProcessed \/ CoreReturnLogged \/ CoreReturn

\* The operating system refuses a call.
FaultStep ==
    \/ \E t \in 1..Len(tasks) : SyscallFails(t)
    \/ CoreMakedirsRaises
    \/ CoreCopyFails

\* The relative paths of the runs whose termination is checked: a file at the
\* root and one in a subdirectory.
LivePaths == {"a.txt", "d/b.txt"}

\* One invocation, not a dry run, of either merge_directories on existing
\* source roots that hold files at LivePaths, the destination holding at most
\* the file at its root; the sequential loop with the default resolver, which
\* it never calls.
InitLive ==
    /\ Init
    /\ plan = <<FALSE>>
    /\ src_dirs[1] \in dirs
    /\ join(dst_dir, "d/b.txt") \notin DOMAIN files
    /\ \A f \in DOMAIN files :
         \E r \in {src_dirs[1], src_dirs[2], dst_dir}, p \in LivePaths : f = join(r, p)
    /\ kwargs = ""
    /\ impl = "core" => num_threads = 1 /\ conflict_resolver = "hash"

NextLive ==
    \/ WorkerStep
    \/ CoordinatorStep
    \/ FaultStep

\* The threads are scheduled fairly: a pool thread that can take a step is
\* not held up forever, nor is the coordinator.  Nothing obliges the
\* operating system to refuse a call.
SpecLive == InitLive /\ [][NextLive]_vars /\ WF_vars(WorkerStep) /\ WF_vars(CoordinatorStep)


(* ------------------------------ the claims ---------------------------- *)
\* The roots that hold the relative path p, and the first of them.
RootsWith(p) == {r \in 1..Len(src_dirs) : join(src_dirs[r], p) \in DOMAIN files}
FirstRootWith(p) == CHOOSE r \in RootsWith(p) : \A q \in RootsWith(p) : r <= q

\* The relative paths the source roots hold.
SourcePaths == {p \in RelPaths : RootsWith(p) # {}}

\* The copy tasks submitted for the relative path p.
TasksFor(p) == {t \in 1..Len(tasks) : tasks[t].dst = join(dst_dir, p)}

\* The files and directories below the destination root in a file system.
DstFiles(fs) == {f \in DOMAIN fs : IsUnder(f, dst_dir)}
DstDirs(ds) == {d \in ds : IsUnder(d, dst_dir) /\ d # dst_dir}

\* The range of a sequence.
Range(seq) == {seq[i] : i \in 1..Len(seq)}

\* The merge has returned and the operating system has refused nothing.
ReturnedClean == pcMain = "returned" /\ faults = 0

\* C1: first root wins.  For a relative path p held by more than one root and
\* not in the destination when a (non-dry-run) merge starts, exactly one copy task is
\* submitted for p, from the first root holding p; when the merge has returned
\* dst/p holds that root's content, and no task and no errors entry comes from
\* a later root's file at p.
C1_FirstRootWins ==
    (impl = "file_operations" /\ ReturnedClean /\ ~dry_run) =>
      \A p \in SourcePaths :
        (Cardinality(RootsWith(p)) > 1 /\ join(dst_dir, p) \notin DOMAIN files0) =>
          LET first == join(src_dirs[FirstRootWith(p)], p)
              later == {join(src_dirs[r], p) : r \in RootsWith(p) \ {FirstRootWith(p)}}
          IN  /\ Cardinality(TasksFor(p)) = 1
              /\ \A t \in TasksFor(p) : tasks[t].src = first
              /\ join(dst_dir, p) \in DOMAIN files
              /\ files[join(dst_dir, p)] = SourceContent(first)
              /\ \A t \in 1..Len(tasks) : tasks[t].src \notin later
              /\ \A e \in Range(summary.errors) : e.src \notin later

\* C2: a non-dry-run merge of one tree D into an existing empty destination
\* ends with the destination's relative file paths equal to D's and with
\* files_copied equal to the number of files of D.
C2_CopyOfOneTree ==
    (/\ ReturnedClean
     /\ run = 1
     /\ ~dry_run
     /\ collect_files_gen(src_dirs[2]) = {}
     /\ DstFiles(files0) = {}
     /\ DstDirs(dirs0) = {}) =>
      /\ {relpath(f, dst_dir) : f \in DstFiles(files)}
           = {relpath(f, src_dirs[1]) : f \in collect_files_gen(src_dirs[1])}
      /\ summary.files_copied = Cardinality(collect_files_gen(src_dirs[1]))

\* C3: re-running is idempotent.  When a merge with the hash resolver has
\* returned without errors, the same merge run again returns files_copied = 0
\* and no conflicts entry whose destination differs from its source.
C3_RerunCopiesNothing ==
    (/\ impl = "file_operations"
     /\ pcMain = "returned"
     /\ run = 2
     /\ conflict_resolver = "hash"
     /\ ~prev[1].dry_run
     /\ ~dry_run
     /\ prev[1].summary.errors = <<>>
     /\ faults = 0) =>
      /\ summary.files_copied = 0
      /\ \A c \in Range(summary.conflicts) :
           LET p == relpath(c, dst_dir)
           IN  files[c] = SourceContent(join(src_dirs[FirstRootWith(p)], p))

\* C4: skip performs no copy.  A task that found a file at its destination
\* and whose resolver returned None has, when it ends, appended its
\* destination to conflicts exactly once, added 0 to files_copied and left
\* the destination file's content as it was.
C4_SkipCopiesNothing ==
    \A t \in 1..Len(tasks) :
      (tasks[t].pc = "done" /\ tasks[t].conflicts # <<>> /\ Len(tasks) = 1 /\ faults = 0) =>
        /\ tasks[t].conflicts = <<tasks[t].dst>>
        /\ tasks[t].files_copied = 0
        /\ files[tasks[t].dst] = files0[tasks[t].dst]

\* The paths a copy task may write: its destination and its two versioned names.
Touches(tk) == {tk.dst, VersionedPath(tk.dst, 1), VersionedPath(tk.dst, 2)}

\* Task t is the only task of the run that writes the paths it writes.
WritesAlone(t) ==
    \A u \in 1..Len(tasks) : u # t => Touches(tasks[u]) \cap Touches(tasks[t]) = {}

\* Task t of a non-dry-run merge with the hash resolver found a file of
\* another content at its destination and has ended without an error.
KeptBothByHash(t) ==
    /\ impl = "file_operations"
    /\ ~dry_run
    /\ conflict_resolver = "hash"
    /\ tasks[t].pc = "done"
    /\ tasks[t].resolved_paths # <<>>
    /\ tasks[t].errors = <<>>
    /\ WritesAlone(t)

\* The two versioned files task t leaves: the incoming source's content under
\* _v1, the destination's earlier content under _v2.
VersionsLeft(t) ==
    LET tk == tasks[t]
        v1 == VersionedPath(tk.dst, 1)
        v2 == VersionedPath(tk.dst, 2)
    IN  /\ v1 \in DOMAIN files /\ files[v1] = SourceContent(tk.src)
        /\ v2 \in DOMAIN files /\ files[v2] = files0[tk.dst]

Trees == <<files, dirs>>
Trees0 == <<files0, dirs0>>

\* C6 as stated: a dry run leaves the disk as it was: while a merge with
\* dry_run = true runs and when it has returned, the files, their contents and
\* the directories are those of its start.
C6_DryRunChangesNoFile == dry_run => Trees = Trees0 /\ logFile = logFile0

\* C6 as amended: a dry run leaves every file and directory but the log file
\* as it was at its start; the log file, when log_file_path is set, is
\* written as in a run for real (file_operations overwrites it with the
\* summary, core appends the logger's record).
C6_DryRunChangesNothing ==
    /\ dry_run => Trees = Trees0
    /\ (dry_run /\ pcMain = "returned" /\ logFile # logFile0) =>
         logFile = IF impl = "core"
                   THEN Append(logFile0, LoggedMessage(summary))
                   ELSE write_summary_to_log(summary)

C6_Witness ==
    /\ dry_run
    /\ pcMain = "returned"
    /\ logFile # logFile0
    /\ \E t \in 1..Len(tasks) : tasks[t].resolved_paths # <<>> /\ tasks[t].pc = "done"

RECURSIVE SumSeq(_)
SumSeq(q) == IF q = <<>> THEN 0 ELSE Head(q) + SumSeq(Tail(q))

\* The second invocation was for real, after a dry run on the same inputs,
\* and the operating system refused nothing.
RealAfterDryRun ==
    /\ pcMain = "returned"
    /\ run = 2
    /\ prev[1].dry_run
    /\ ~dry_run
    /\ faults = 0

\* C7 as stated: the dry run returns the files_copied and directories_created
\* of the run for real on the same inputs.
C7_DryRunSameCounts ==
    RealAfterDryRun =>
      /\ prev[1].summary.files_copied = summary.files_copied
      /\ prev[1].summary.directories_created = summary.directories_created

\* C7 as amended: a dry run that has returned reports directories_created = 0
\* and counts in files_copied only the versioned copies of its keep-both
\* conflicts, one per path the resolver listed (so 0 when the resolver listed
\* nothing), not the copies and directories of the run for real.
C7_DryRunCountsVersionsOnly ==
    (dry_run /\ pcMain = "returned") =>
      /\ summary.directories_created = 0
      /\ summary.files_copied
           = SumSeq([t \in 1..Len(tasks) |-> Len(tasks[t].resolved_paths)])

\* A dry run has returned having counted the two versioned copies of its one
\* conflict, where the run for real counts three copies.
C7_Witness ==
    /\ dry_run
    /\ pcMain = "returned"
    /\ Len(tasks) = 1
    /\ tasks[1].resolved_paths = <<tasks[1].src, tasks[1].dst>>
    /\ summary.files_copied = 2

\* C8: a dry run into a destination that holds none of the sources' relative
\* paths returns files_copied = 0, directories_created = 0 and conflicts = [].
C8_DryRunReportsNothing ==
    (/\ dry_run
     /\ pcMain = "returned"
     /\ \A p \in SourcePaths : join(dst_dir, p) \notin DOMAIN files0) =>
      /\ summary.files_copied = 0
      /\ summary.directories_created = 0
      /\ summary.conflicts = <<>>

C8_Witness ==
    /\ dry_run
    /\ pcMain = "returned"
    /\ \A p \in SourcePaths : join(dst_dir, p) \notin DOMAIN files0
    /\ Len(tasks) = 2
    /\ join(dst_dir, "d") \notin dirs0
    /\ \E t \in 1..Len(tasks) : dirname(tasks[t].dst) = join(dst_dir, "d")

\* C9: a failing directory creation or file copy does not make the merge
\* raise, and leaves in errors a record with the source path, the destination
\* path and the message.
C9_FailuresRecoveredLocally ==
    /\ pcMain # "raised"
    /\ \A e \in Range(summary.errors) : {"src", "dst", "error"} \subseteq DOMAIN e

\* Every submitted task has ended and the summary holds what the tasks found.
AllApplied ==
    /\ \A t \in 1..Len(tasks) : Finished(tasks[t])
    /\ summary_lock = 0
    /\ summary.files_copied = SumSeq([t \in 1..Len(tasks) |-> tasks[t].files_copied])
    /\ summary.directories_created
         = SumSeq([t \in 1..Len(tasks) |-> tasks[t].directories_created])
    /\ Len(summary.conflicts) = SumSeq([t \in 1..Len(tasks) |-> Len(tasks[t].conflicts)])
    /\ Len(summary.errors) = SumSeq([t \in 1..Len(tasks) |-> Len(tasks[t].errors)])

\* C10: join before return.  When the pool has been left (before the log is
\* written and when merge_directories has returned) every submitted task has
\* ended and has added its results to the summary, and after the return
\* neither the summary nor the file system changes until the next invocation.
C10_JoinBeforeReturn ==
    /\ []((impl = "file_operations" /\ pcMain \in {"joined", "returned"}) => AllApplied)
    /\ [][(pcMain = "returned" /\ pcMain' = "returned")
            => (summary' = summary /\ files' = files /\ dirs' = dirs)]_vars

C10_Witness ==
    /\ impl = "file_operations"
    /\ pcMain = "returned"
    /\ Len(tasks) = 2
    /\ summary.files_copied = 2
    /\ logFile = write_summary_to_log(summary)

\* The number of times x occurs in a sequence.
Count(seq, x) == Cardinality({i \in 1..Len(seq) : seq[i] = x})

\* The entries of the tasks' local conflicts and errors lists.
TaskConflicts == UNION {Range(tasks[t].conflicts) : t \in 1..Len(tasks)}
TaskErrors == UNION {Range(tasks[t].errors) : t \in 1..Len(tasks)}

\* The summary holds the sums of the tasks' counts and exactly the tasks'
\* conflicts and errors entries, each as often as the tasks recorded it.
NothingLost ==
    /\ summary.files_copied = SumSeq([t \in 1..Len(tasks) |-> tasks[t].files_copied])
    /\ summary.directories_created
         = SumSeq([t \in 1..Len(tasks) |-> tasks[t].directories_created])
    /\ \A c \in TaskConflicts \cup Range(summary.conflicts) :
         Count(summary.conflicts, c)
           = SumSeq([t \in 1..Len(tasks) |-> Count(tasks[t].conflicts, c)])
    /\ \A e \in TaskErrors \cup Range(summary.errors) :
         Count(summary.errors, e) = SumSeq([t \in 1..Len(tasks) |-> Count(tasks[t].errors, e)])

\* A step that changes the summary of the running invocation.
MutatesSummary == summary' # summary /\ pcMain # "returned"

CompletedWithoutError ==
    {t \in 1..Len(tasks) : tasks[t].pc = "done" /\ tasks[t].errors = <<>>}

\* C12: no increment of the progress counter is lost: under every
\* interleaving of the copy tasks, when all tasks have ended the counter
\* equals the number of tasks that completed without an error.
C12_NoIncrementLost ==
    (impl = "file_operations" /\ pcMain \in {"joined", "returned"}) =>
      progress_counter = Cardinality(CompletedWithoutError)

\* C13: the conflict resolver is invoked for a claimed file if and only if a
\* file exists at its destination path when the file is processed: a file
\* that was in the destination when the merge started is not overwritten
\* unless the resolver was consulted for its path, and the resolver is not
\* called for a destination path that is free.
C13_ResolverIffDestinationExists ==
    /\ \A t \in 1..Len(tasks) : tasks[t].consulted => tasks[t].dst \in DOMAIN files
    /\ \A p \in DstFiles(files0) :
         files[p] # files0[p] => \E t \in 1..Len(tasks) : tasks[t].dst = p /\ tasks[t].consulted

\* The only task of a merge with the Preferred-Source Resolver and its
\* preferred_src found a file at its destination and has ended, the operating
\* system having refused nothing.
PreferredConsulted(t) ==
    /\ impl = "file_operations"
    /\ conflict_resolver = "preferred"
    /\ kwargs # ""
    /\ ~dry_run
    /\ Len(tasks) = 1
    /\ tasks[t].pc = "done"
    /\ tasks[t].consulted
    /\ faults = 0

\* C14: only the preferred source wins.  With a file at the destination, if
\* the incoming source lies under preferred_src the resolver returns the
\* incoming source path and the destination ends with its content; if not,
\* the resolver returns None, the destination file's content is left as it
\* was and errors gets no entry.
C14_OnlyPreferredSourceWins ==
    \A t \in 1..Len(tasks) :
      PreferredConsulted(t) =>
        LET tk == tasks[t]
        IN  IF CommonPathIs(tk.src, kwargs)
            THEN /\ keep_files_from_preferred_src(tk.src, tk.dst)
                      = Answer("single", <<tk.src>>)
                 /\ files[tk.dst] = SourceContent(tk.src)
            ELSE /\ keep_files_from_preferred_src(tk.src, tk.dst) = Answer("none", <<>>)
                 /\ files[tk.dst] = files0[tk.dst]
                 /\ tk.errors = <<>>

\* Task t leaves its call of the Hash-Equality Resolver in this step, the
\* files having been readable.
HashAnswered(t) ==
    /\ conflict_resolver = "hash"
    /\ t \in 1..Len(tasks)
    /\ Len(tasks') = Len(tasks)
    /\ tasks[t].pc = "resolve"
    /\ tasks'[t].pc # "resolve"
    /\ tasks'[t].errors = <<>>

\* C15: for every pair of readable files, resolve_conflict_by_hash returns
\* None exactly when the two files have the same content, and otherwise the
\* list [src, dst], the incoming source first; copy_file acts on that answer
\* (None: the destination goes to conflicts; a list: the two paths are the
\* ones copied under the versioned names).
C15_HashResolverAnswers ==
    /\ [](\A s \in DOMAIN files, d \in DOMAIN files :
            resolve_conflict_by_hash(s, d)
              = IF files[s] = files[d] THEN Answer("none", <<>>)
                                       ELSE Answer("list", <<s, d>>))
    /\ [][\A t \in 1..Len(tasks) :
            HashAnswered(t) =>
              IF files[tasks[t].src] = files[tasks[t].dst]
              THEN /\ tasks'[t].conflicts = <<tasks[t].dst>>
                   /\ tasks'[t].resolved_paths = <<>>
              ELSE /\ tasks'[t].conflicts = <<>>
                   /\ tasks'[t].resolved_paths = <<tasks[t].src, tasks[t].dst>>]_vars

\* A second run whose task got None for files now identical, after a first
\* run whose task got the list for files that differed.
C15_Witness ==
    /\ impl = "file_operations"
    /\ conflict_resolver = "hash"
    /\ run = 2
    /\ ~prev[1].dry_run
    /\ prev[1].summary.files_copied = 3
    /\ \E t \in 1..Len(tasks) :
         /\ tasks[t].consulted
         /\ tasks[t].conflicts = <<tasks[t].dst>>
         /\ files[tasks[t].src] = files[tasks[t].dst]

\* The source roots that do not exist.
MissingRoots == {r \in 1..Len(src_dirs) : src_dirs[r] \notin dirs0}

\* C16: a missing source root is fatal: its enumeration raises at once, the
\* error leaves merge_directories, and the call does not return a summary:
\* no task is submitted, nothing is copied, the merge does not go on.
C16_MissingRootIsFatal ==
    MissingRoots # {} =>
      /\ pcMain \notin {"joined", "returned"}
      /\ tasks = <<>>
      /\ processed_files = {}
      /\ files = files0

\* C17: with the Preferred-Source Resolver selected and preferred_src not
\* supplied, the invocation fails before any copying: no file is copied, no
\* directory is created, and the call does not return a summary.
C17_MisconfigurationFailsFirst ==
    (impl = "file_operations" /\ conflict_resolver = "preferred" /\ kwargs = "") =>
      /\ files = files0
      /\ dirs = dirs0
      /\ pcMain # "returned"

\* The paths whose file this step creates or changes, and the directories it
\* creates.
FilesWritten ==
    {p \in DOMAIN files' : p \notin DOMAIN files \/ files'[p] # files[p]}
DirsMade == dirs' \ dirs

\* This step deletes no file and no directory.
NothingDeleted == DOMAIN files \subseteq DOMAIN files' /\ dirs \subseteq dirs'

ReturnsLogged == ReturnLogged \/ CoreReturnLogged

\* C19: summary log round trip.  When a merge with a log path returns, the
\* file holds exactly one record, whatever it held before; the record is the
\* returned summary: reading it back gives a mapping equal to the summary.
C19_LogHoldsReturnedSummary ==
    [][ReturnsLogged =>
         /\ Len(logFile') = 1
         /\ DOMAIN logFile'[1] = DOMAIN summary'
         /\ json_load(logFile'[1]) = summary']_vars


\* The relative paths of a folder, and the folder's files, in a file system.
PathsIn(fs, folder) == {relpath(f, folder) : f \in {g \in DOMAIN fs : IsUnder(g, folder)}}
FolderOf(fs, folder) ==
    [f \in {g \in DOMAIN fs : IsUnder(g, folder)} |-> fs[f]]

\* smartMerge has returned with the folder `to` holding every file of `from`
\* it was missing, and `from` as it was.
Gained(to, from) ==
    /\ smart.pc = "done"
    /\ smart.target = to
    /\ \A f \in PathsIn(files0, from) \ PathsIn(files0, to) :
         /\ join(to, f) \in DOMAIN files
         /\ files[join(to, f)] = files0[join(from, f)]
    /\ PathsIn(files, to) = PathsIn(files0, to) \cup PathsIn(files0, from)
    /\ FolderOf(files, from) = FolderOf(files0, from)

\* C20: pairwise merger orientation.  smartMerge(A, B) copies into the folder
\* missing more files: when A's relative paths are a strict subset of B's, A
\* gains every file of B - A and B is unchanged; when B's are a strict subset
\* of A's, B gains every file of A - B and A is unchanged; when both are
\* missing as many files, no swap: the first argument A receives the copies.
C20_PairwiseOrientation ==
    smart.pc = "done" =>
      LET A == PathsIn(files0, folderA)
          B == PathsIn(files0, folderB)
      IN  /\ (A \subseteq B /\ A # B) => Gained(folderA, folderB)
          /\ (B \subseteq A /\ A # B) => Gained(folderB, folderA)
          /\ Cardinality(B \ A) = Cardinality(A \ B) => Gained(folderA, folderB)

\* The tie: each folder is missing one file of the other, and A has gained B's.
C20_Witness ==
    /\ Gained(folderA, folderB)
    /\ PathsIn(files0, folderA) = {"a.txt"}
    /\ PathsIn(files0, folderB) = {"d/b.txt"}

\* The shutil.copy calls of the submitted tasks that have returned.
CopiesCompleted == SumSeq([t \in 1..Len(tasks) |-> tasks[t].copied])

\* A step of core.py's loop that copies a file.
CoreCopies == \E from \in DOMAIN files, to \in DOMAIN files' : files' = Written(to, from)

\* C21: files_copied counts only copies that succeeded.  In every state of a
\* non-dry-run merge files_copied is at most the number of file copies that have
\* completed; a task that recorded an error has counted no more copies than
\* it made; the sequential loop raises files_copied by one, with a copy.
C21_CountsOnlyCompletedCopies ==
    /\ [](~dry_run /\ impl = "file_operations" =>
            /\ summary.files_copied <= CopiesCompleted
            /\ \A t \in 1..Len(tasks) :
                 tasks[t].errors # <<>> => tasks[t].files_copied <= tasks[t].copied)
    /\ [][impl = "core" /\ pcMain = "loop" /\ summary'.files_copied # summary.files_copied =>
            summary'.files_copied = summary.files_copied + 1 /\ CoreCopies]_vars

\* The trace a copy task has left in the summary for its relative path: its
\* file copied and counted, its destination path in conflicts, or an error
\* record for it.
Accounted(t) ==
    \/ /\ tasks[t].copied > 0
       /\ tasks[t].dst \in DOMAIN files
       /\ summary.files_copied > 0
    \/ tasks[t].dst \in Range(summary.conflicts)
    \/ \E e \in Range(summary.errors) : e.dst = tasks[t].dst

\* The same for a relative path claimed by the sequential loop, whose error
\* records hold the message alone.
CoreAccounted(p) ==
    \/ join(dst_dir, p) \in DOMAIN files /\ summary.files_copied > 0
    \/ summary.errors # <<>>

\* C22: every claimed file is accounted for.  When a non-dry-run merge
\* returns, each relative path claimed by the coordinator has its file copied
\* and counted, or its destination path in conflicts, or a record in errors.
C22_EveryClaimedFileAccounted ==
    pcMain = "returned" /\ ~dry_run =>
      /\ Len(tasks) = Cardinality(processed_files) \/ impl = "core"
      /\ \A t \in 1..Len(tasks) : Accounted(t)
      /\ impl = "core" => \A p \in processed_files : CoreAccounted(p)


\* Two copy tasks of the run target files in one destination directory that
\* did not exist when the run started.
ShareNewDirectory(t, u) ==
    /\ t # u
    /\ dirname(tasks[t].dst) = dirname(tasks[u].dst)
    /\ dirname(tasks[t].dst) \notin dirs0

\* C23: concurrent directory creation is safe.  When copy tasks target files
\* in the same destination directory that does not exist yet, and the
\* operating system refuses nothing, then after the join the directory
\* exists, every one of those files is copied and the tasks have added no
\* entry to errors.
C23_ConcurrentMakedirsSafe ==
    pcMain \in {"joined", "returned"} /\ ~dry_run /\ faults = 0 =>
      \A t, u \in 1..Len(tasks) :
         ShareNewDirectory(t, u) =>
           /\ dirname(tasks[t].dst) \in dirs
           /\ tasks[t].dst \in DOMAIN files
           /\ tasks[t].errors = <<>>
           /\ \A e \in Range(summary.errors) : e.dst # tasks[t].dst


\* The directories under the destination that the run has created.
DirectoriesMade == DstDirs(dirs) \ DstDirs(dirs0)

\* C24: directories_created counts the directories the run created.  After a
\* non-dry-run merge into an existing destination root, directories_created
\* equals the number of directories that exist under the destination after
\* the run and did not exist before it, however deep they are nested.
C24_DirectoriesCreatedExact ==
    pcMain = "returned" /\ ~dry_run /\ dst_dir \in dirs0 =>
      summary.directories_created = Cardinality(DirectoriesMade)


\* merge_directories has returned (or raised), every submitted copy task has
\* finished and the summary lock is free.
Terminated ==
    /\ pcMain \in {"returned", "raised"}
    /\ \A t \in 1..Len(tasks) : Finished(tasks[t])
    /\ summary_lock = 0

\* C25: every merge terminates.  Under fair scheduling of the threads the
\* merge reaches, and stays in, a state in which merge_directories has
\* returned, every submitted copy task has finished and the summary lock is
\* free: no task runs or waits for the lock forever, and every acquisition of
\* the lock is followed by its release.
C25_EveryMergeTerminates == <>[]Terminated

\* Two tasks of a pool of two have gone through the lock, one of them with an
\* error recorded, and the merge has returned.
C25_Witness ==
    /\ pcMain = "returned"
    /\ num_threads = 2
    /\ summary_lock = 0
    /\ Len(tasks) = 2
    /\ \A t \in 1..2 : tasks[t].pc = "done"
    /\ tasks[1].errors # <<>>
    /\ Len(summary.errors) = 1


=============================================================================
